---- MODULE Spec2Model ----
(***************************************************************************)
(* A model of ycm_conf.py: the flag pipeline of CompilationDatabase, the   *)
(* directory caches of FileManager and the host entry points c_settings    *)
(* and Settings.                                                           *)
(*                                                                         *)
(* Strings are TLA+ strings; a parsed flag is a record                     *)
(*   [kind |-> "str" | "tuple" | "list", items |-> <<string, ...>>]        *)
(* so that a Python str, a 2-tuple and a YAML list stay distinguishable.   *)
(***************************************************************************)
EXTENDS Integers, Sequences, FiniteSets

(***************************************************************************)
(* Bounds of the model.                                                    *)
(***************************************************************************)
\* longest raw argument vector drawn for the pipeline specification
MaxLen == 3
\* depth at which the interpreter gives up a recursion (RecursionError)
RecursionLimit == 4

(***************************************************************************)
(* String helpers.                                                         *)
(***************************************************************************)
StartsWith(s, p) == Len(s) >= Len(p) /\ SubSeq(s, 1, Len(p)) = p

Max(S) == CHOOSE x \in S : \A y \in S : y <= x

\* index of the last occurrence of the one-character string c in s, 0 if none
LastIndexOf(s, c) == Max({0} \cup {i \in 1..Len(s) : SubSeq(s, i, i) = c})

\* index of the first occurrence of c in s at or after from, Len(s)+1 if none
NextIndexOf(s, c, from) ==
    CHOOSE i \in from..(Len(s) + 1) :
        /\ (i <= Len(s) => SubSeq(s, i, i) = c)
        /\ \A j \in from..(i - 1) : SubSeq(s, j, j) # c

Str(s) == [kind |-> "str", items |-> <<s>>]
Tuple(f, v) == [kind |-> "tuple", items |-> <<f, v>>]
List(f, v) == [kind |-> "list", items |-> <<f, v>>]

IsTuple(f) == f.kind = "tuple"

(***************************************************************************)
(* Class constants of CompilationDatabase.                                 *)
(***************************************************************************)
HEADER_EXTS == {".h", ".hxx", ".hpp", ".hh"}
SOURCE_EXTS == {".cpp", ".cxx", ".cc", ".c", ".m", ".mm"}

MULTI_ARG_FLAGS ==
    {"-include", "-imacros", "-iprefix", "-iquote", "-isysroot", "-isystem",
     "-iwithprefix", "-iwithprefixbefore", "-idirafter", "-imultilib",
     "--param", "-o", "-T", "-u", "-Xlinker", "-Xpreprocesor", "-x", "-z"}

PATH_FLAGS ==
    {"-include", "-imacros", "-iprefix", "-iquote", "-isysroot", "-isystem",
     "-iwithprefix", "-iwithprefixbefore", "-idirafter", "-imultilib",
     "-iplugindir=", "-I", "-L", "--sysroot="}

SQUASH_FLAGS == {"-I", "-L", "--sysroot="}

USELESS_FLAGS == {"-o"}

\* the alternatives of group 'flag' of the regular expression
\* ^(?P<flag>-([IL]|(-sysroot|iplugindir)=))(?P<path>.+)$
SingleArgFlagSpellings == {"-I", "-L", "--sysroot=", "-iplugindir="}

\* SINGLE_ARG_PATH_FLAG.match(flag): the set holding the match (flag, path),
\* empty when the argument does not match
SINGLE_ARG_PATH_FLAG(flag) ==
    {Tuple(p, SubSeq(flag, Len(p) + 1, Len(flag))) :
        p \in {q \in SingleArgFlagSpellings :
                  StartsWith(flag, q) /\ Len(flag) > Len(q)}}

(***************************************************************************)
(* The flag pipeline.  A stage maps a sequence of parsed flags to a        *)
(* sequence of parsed flags; the tokenizer may also raise MultiFlagError.  *)
(***************************************************************************)
RECURSIVE ParseFrom(_, _)
ParseFrom(flags, i) ==
    IF i > Len(flags) THEN [err |-> FALSE, toks |-> <<>>]
    ELSE LET flag == flags[i]
             match == SINGLE_ARG_PATH_FLAG(flag)
         IN  IF match # {}
             THEN LET rest == ParseFrom(flags, i + 1)
                  IN  [err |-> rest.err,
                       toks |-> <<CHOOSE m \in match : TRUE>> \o rest.toks]
             ELSE IF flag \in MULTI_ARG_FLAGS
             THEN IF i + 1 > Len(flags)
                  THEN [err |-> TRUE, toks |-> <<>>]
                  ELSE LET rest == ParseFrom(flags, i + 2)
                       IN  [err |-> rest.err,
                            toks |-> <<Tuple(flag, flags[i + 1])>> \o rest.toks]
             ELSE LET rest == ParseFrom(flags, i + 1)
                  IN  [err |-> rest.err, toks |-> <<Str(flag)>> \o rest.toks]

\* _parse_multi_arg_flags; err stands for MultiFlagError
_parse_multi_arg_flags(flags) == ParseFrom(flags, 1)

FlagOf(f) == f.items[1]

\* _skip_useless_args with the test of line 158 lost: every flag is kept
SkipNothing(flags) == flags

_skip_useless_args(flags) ==
    SelectSeq(flags, LAMBDA f : FlagOf(f) \notin USELESS_FLAGS)

\* the path components of s, split at "/" with empty components dropped
RECURSIVE SplitFrom(_, _)
SplitFrom(s, from) ==
    IF from > Len(s) THEN <<>>
    ELSE LET e == NextIndexOf(s, "/", from)
         IN  IF e = from THEN SplitFrom(s, e + 1)
             ELSE <<SubSeq(s, from, e - 1)>> \o SplitFrom(s, e + 1)

SplitPath(s) == SplitFrom(s, 1)

RECURSIVE JoinPath(_)
JoinPath(parts) ==
    IF parts = <<>> THEN ""
    ELSE "/" \o Head(parts) \o JoinPath(Tail(parts))

RECURSIVE Normalise(_, _)
Normalise(parts, acc) ==
    IF parts = <<>> THEN acc
    ELSE LET p == Head(parts)
         IN  IF p = "." THEN Normalise(Tail(parts), acc)
             ELSE IF p = ".."
             THEN Normalise(Tail(parts),
                            IF acc = <<>> THEN acc
                            ELSE SubSeq(acc, 1, Len(acc) - 1))
             ELSE Normalise(Tail(parts), Append(acc, p))

\* str((Path(wd) / Path(value)).resolve()) on a filesystem without symlinks
ResolvePath(wd, value) ==
    LET joined == IF StartsWith(value, "/") THEN value
                  ELSE wd \o "/" \o value
        parts == Normalise(SplitPath(joined), <<>>)
    IN  IF parts = <<>> THEN "/" ELSE JoinPath(parts)

AbsoluteFlag(f, wd) ==
    IF ~IsTuple(f) THEN f
    ELSE IF FlagOf(f) \notin PATH_FLAGS THEN f
    ELSE Tuple(FlagOf(f), ResolvePath(wd, f.items[2]))

_make_relative_paths_in_flags_absolute(flags, wd) ==
    [i \in 1..Len(flags) |-> AbsoluteFlag(flags[i], wd)]

\* ''.join(flag)
RECURSIVE JoinItems(_)
JoinItems(items) ==
    IF items = <<>> THEN "" ELSE Head(items) \o JoinItems(Tail(items))

RECURSIVE _flatten_flags(_)
_flatten_flags(flags) ==
    IF flags = <<>> THEN <<>>
    ELSE LET flag == Head(flags)
             out == IF IsTuple(flag)
                    THEN IF FlagOf(flag) \in SQUASH_FLAGS
                         THEN <<JoinItems(flag.items)>>
                         ELSE flag.items
                    ELSE flag.items
         IN  out \o _flatten_flags(Tail(flags))


(***************************************************************************)
(* Configuration documents.  A mapping is a record with the set of keys it *)
(* holds, so that "'flags' in config" is a test on keys.                   *)
(***************************************************************************)
FlagsCfg(keys, add, remove) == [keys |-> keys, add |-> add, remove |-> remove]
ExtCfg(keys, header, source) == [keys |-> keys, header |-> header, source |-> source]
Config(keys, flags, extensions) ==
    [keys |-> keys, flags |-> flags, extensions |-> extensions]

NoFlagsCfg == FlagsCfg({}, <<>>, <<>>)
NoExtCfg == ExtCfg({}, <<>>, <<>>)

\* the documents a ycm_extra_conf.yml of the model may hold, as yaml.load
\* returns them
ConfigDocs ==
    << Config({}, NoFlagsCfg, NoExtCfg),
       Config({"flags"},
              FlagsCfg({"add", "remove"}, <<Str("-Wall")>>, <<Str("-DX=1")>>),
              NoExtCfg),
       Config({"flags"},
              FlagsCfg({"add"}, <<Str("-o"), List("-I", "inc")>>, <<>>),
              NoExtCfg),
       Config({"flags"},
              FlagsCfg({"remove"}, <<>>, <<List("-include", "foo"), Str("-I")>>),
              NoExtCfg),
       Config({"extensions"}, NoFlagsCfg,
              ExtCfg({"header", "source"}, <<".h">>, <<".cpp", ".cc">>)),
       Config({"extensions"}, NoFlagsCfg,
              ExtCfg({"header", "source"}, <<".h">>, <<".h", ".c">>)),
       Config({"extensions"}, NoFlagsCfg,
              ExtCfg({"source"}, <<>>, <<".hh", ".c">>)) >>

\* lines 296-299: a list among the entries becomes a tuple
ConvertTarget(target) ==
    [i \in 1..Len(target) |->
        IF target[i].kind = "list"
        THEN [kind |-> "tuple", items |-> target[i].items]
        ELSE target[i]]

\* the document as _find_config_for_db stores it
LoadConfig(doc) ==
    IF "flags" \in doc.keys
    THEN [doc EXCEPT
            !.flags.add = IF "add" \in doc.flags.keys
                          THEN ConvertTarget(doc.flags.add) ELSE @,
            !.flags.remove = IF "remove" \in doc.flags.keys
                             THEN ConvertTarget(doc.flags.remove) ELSE @]
    ELSE doc

\* self.config of a database: <<>> stands for None, <<c>> for the mapping c
None == <<>>
Some(c) == <<c>>

InSeq(e, s) == \E i \in 1..Len(s) : s[i] = e

\* lines 218-224 of get_flags_for_file
ApplyConfig(flags, config) ==
    IF config # None /\ config[1].keys # {} /\ "flags" \in config[1].keys
    THEN LET flags_cfg == config[1].flags
             kept == IF "remove" \in flags_cfg.keys
                     THEN SelectSeq(flags, LAMBDA e : ~InSeq(e, flags_cfg.remove))
                     ELSE flags
         IN  IF "add" \in flags_cfg.keys THEN kept \o flags_cfg.add ELSE kept
    ELSE flags

\* lines 209-232 of get_flags_for_file, for the compilation info
\* (compiler_flags_, compiler_working_dir_) the index gave for the file
SourceFlags(config, compiler_flags_, compiler_working_dir_) ==
    IF compiler_flags_ = <<>> THEN [st |-> "none", flags |-> <<>>]
    ELSE LET parsed == _parse_multi_arg_flags(compiler_flags_)
         IN  IF parsed.err THEN [st |-> "MultiFlagError", flags |-> <<>>]
             ELSE LET skipped == _skip_useless_args(parsed.toks)
                      cfgd == ApplyConfig(skipped, config)
                      abs == IF compiler_working_dir_ # ""
                             THEN _make_relative_paths_in_flags_absolute(
                                      cfgd, compiler_working_dir_)
                             ELSE cfgd
                  IN  [st |-> "flags", flags |-> _flatten_flags(abs)]

(***************************************************************************)
(* State.                                                                  *)
(***************************************************************************)
VARIABLES
    input,      \* pipeline specification: the arguments of the call
    output,     \* pipeline specification: what the applied function gave
    fs,         \* the filesystem and the compilation index, fixed by Init
    _dbs,       \* FileManager._dbs: directory -> database object, 0 if no key
    _configs,   \* FileManager._configs: directory -> config object, 0 if no key
    databases,  \* every CompilationDatabase object constructed, by identity
    configs,    \* every configuration object loaded, by identity
    last,       \* the last call of the host and what it returned
    threads     \* concurrent specification: where each request thread stands

vars == <<input, output, fs, _dbs, _configs, databases, configs, last, threads>>

cacheVars == <<fs, _dbs, _configs, databases, configs, last, threads>>

\* the request threads of the host
Threads == {1, 2}

\* a thread that is in no call
Idle == [pc |-> "idle", filename |-> "", parents |-> <<>>, i |-> 0,
         found |-> "", config |-> 0, obj |-> 0, ret |-> 0, exc |-> ""]

NoThreads == [t \in Threads |-> Idle]

\* the pipeline variables when no pipeline function has been applied
NoInput == [raw |-> <<>>, wd |-> "", config |-> None]

NoOutput == [op |-> "none", err |-> FALSE, toks |-> <<>>, flags |-> <<>>]

(***************************************************************************)
(* Paths.                                                                  *)
(***************************************************************************)
\* os.path.splitext: <<name, ext>>
SplitExt(p) ==
    LET sepIndex == LastIndexOf(p, "/")
        dotIndex == LastIndexOf(p, ".")
    IN  IF /\ dotIndex > sepIndex
           /\ \E k \in (sepIndex + 1)..(dotIndex - 1) : SubSeq(p, k, k) # "."
        THEN <<SubSeq(p, 1, dotIndex - 1), SubSeq(p, dotIndex, Len(p))>>
        ELSE <<p, "">>

DirName(parts) == IF parts = <<>> THEN "/" ELSE JoinPath(parts)

\* Path(p).parents of an absolute path, nearest first
Parents(p) ==
    LET parts == SplitPath(p)
        n == Len(parts)
    IN  [k \in 1..n |-> DirName(SubSeq(parts, 1, n - k))]

(***************************************************************************)
(* The filesystem and the compilation index (both outside the program).    *)
(***************************************************************************)
Dirs == {"/", "/p", "/p/s"}

ExistingFiles == {"/p/a.c", "/p/a.h", "/p/s/b.c"}

\* what the host may ask about: the files, and a path that is no file
Queries == ExistingFiles \cup {"/p/gone.c"}

Languages == {"cfamily", "python"}

EmptyCache == [d \in Dirs |-> 0]

NoInfo == [flags |-> <<>>, wd |-> ""]

Info(flags, wd) == [flags |-> flags, wd |-> wd]

Table(ac, acc, acpp, ah, bc) ==
    [ac |-> ac, acc |-> acc, acpp |-> acpp, ah |-> ah, bc |-> bc]

EndToEnd == Info(<<"-Ifoo", "-DX=1", "-o", "out.o">>, "/p")
Dangling == Info(<<"-DX=1", "-x">>, "/p")
OnlyUseless == Info(<<"-o", "out.o">>, "/p")
FlagsCC == Info(<<"-DCC">>, "")
FlagsCPP == Info(<<"-DCPP">>, "")
FlagsH == Info(<<"-DH">>, "")
FlagsB == Info(<<"-Ifoo">>, "/p/s")

\* the contents an index of the model may have: the entries of /p/a.c,
\* /p/a.cc, /p/a.cpp, /p/a.h and /p/s/b.c
Tables ==
    { Table(EndToEnd, NoInfo, NoInfo, NoInfo, FlagsB),
      Table(Dangling, NoInfo, NoInfo, NoInfo, FlagsB),
      Table(OnlyUseless, NoInfo, NoInfo, NoInfo, FlagsB),
      Table(NoInfo, FlagsCC, FlagsCPP, NoInfo, FlagsB),
      Table(NoInfo, FlagsCC, NoInfo, NoInfo, FlagsB),
      Table(NoInfo, NoInfo, FlagsCPP, NoInfo, FlagsB),
      Table(NoInfo, NoInfo, NoInfo, FlagsH, FlagsB),
      Table(EndToEnd, NoInfo, NoInfo, FlagsH, FlagsB),
      Table(EndToEnd, FlagsCC, FlagsCPP, FlagsH, Dangling),
      Table(NoInfo, NoInfo, NoInfo, NoInfo, NoInfo) }

\* ycm_core's GetCompilationInfoForFile: the entry of the file, empty flags
\* when the index has none
GetCompilationInfoForFile(table, filename) ==
    CASE filename = "/p/a.c" -> table.ac
      [] filename = "/p/a.cc" -> table.acc
      [] filename = "/p/a.cpp" -> table.acpp
      [] filename = "/p/a.h" -> table.ah
      [] filename = "/p/s/b.c" -> table.bc
      [] OTHER -> NoInfo

\* where the one ycm_extra_conf.yml of the model lies and what it holds
\* (doc 0: there is none)
ConfigPlacements ==
    {[dir |-> "/", doc |-> 0], [dir |-> "/p/s", doc |-> 2]}
        \cup [dir : {"/", "/p"}, doc : {1, 2, 5, 6, 7}]

DbPlacements == {{}, {"/p"}, {"/p", "/p/s"}}

NoFs == [dbAt |-> {}, cfg |-> [dir |-> "/", doc |-> 0],
         table |-> [ac |-> NoInfo, acc |-> NoInfo, acpp |-> NoInfo,
                    ah |-> NoInfo, bc |-> NoInfo]]

HasDbFile(fsys, dir) == dir \in fsys.dbAt
HasConfigFile(fsys, dir) == fsys.cfg.doc # 0 /\ fsys.cfg.dir = dir

(***************************************************************************)
(* CompilationDatabase objects.                                            *)
(***************************************************************************)
SeqToSet(q) == {q[i] : i \in 1..Len(q)}

\* CompilationDatabase.__init__(directory, config): config is None or the
\* loaded mapping.  "'extensions' in None" raises TypeError.
NewDatabase(directory, cfgId, config) ==
    IF config = None
    THEN [exc |-> "TypeError", obj |-> <<>>]
    ELSE LET c == config[1]
             ext_cfg == c.extensions
             hasExt == "extensions" \in c.keys
         IN  [exc |-> "",
              obj |-> <<[directory |-> directory,
                         config |-> cfgId,
                         header_exts |->
                             IF hasExt /\ "header" \in ext_cfg.keys
                             THEN SeqToSet(ext_cfg.header) ELSE HEADER_EXTS,
                         source_exts |->
                             IF hasExt /\ "source" \in ext_cfg.keys
                             THEN SeqToSet(ext_cfg.source) ELSE SOURCE_EXTS]>>]

\* what a call of get_flags_for_file gives: no flags (None), a flag list, or
\* an exception
NoFlags == [st |-> "none", flags |-> <<>>]
Raised(exc) == [st |-> exc, flags |-> <<>>]

\* "if res:" of the header loop, and an exception leaving the loop
Decisive(r) == r.st \notin {"none", "flags"} \/ (r.st = "flags" /\ r.flags # <<>>)

\* get_flags_for_file falling through to the index after the header loop
HeaderMissAsksIndex(self, table, filename) ==
    LET comp_info == GetCompilationInfoForFile(table, filename)
    IN  {SourceFlags(self.config, comp_info.flags, comp_info.wd)}

\* line 207: the header loop found nothing
HeaderMiss(self, table, filename) == {NoFlags}

\* get_flags_for_file(filename) at call depth `depth`: the set of results it
\* may give.  source_exts is a set, whose iteration order the language does
\* not fix: any candidate with a usable result may be the first one met that
\* has one.
RECURSIVE get_flags_for_file(_, _, _, _)
get_flags_for_file(self, table, filename, depth) ==
    IF depth > RecursionLimit THEN {Raised("RecursionError")}
    ELSE
    LET ne == SplitExt(filename)
        name == ne[1]
        ext == ne[2]
    IN  IF ext \in self.header_exts
        THEN LET res(e) == get_flags_for_file(self, table, name \o e, depth + 1)
                 hits == UNION {{r \in res(e) : Decisive(r)} : e \in self.source_exts}
                 allMayMiss == \A e \in self.source_exts :
                                   \E r \in res(e) : ~Decisive(r)
             IN  hits \cup (IF allMayMiss
                            THEN HeaderMiss(self, table, filename) ELSE {})
        ELSE LET comp_info == GetCompilationInfoForFile(table, filename)
             IN  {SourceFlags(self.config, comp_info.flags, comp_info.wd)}

(***************************************************************************)
(* FileManager.                                                            *)
(***************************************************************************)
Probe(what, dir) == [what |-> what, dir |-> dir]

\* lines 250-259: the walk over path.parents
RECURSIVE WalkDb(_, _, _, _, _)
WalkDb(parents, i, dbs, fsys, probes) ==
    IF i > Len(parents) THEN [hit |-> "none", dir |-> "", probes |-> probes]
    ELSE IF dbs[parents[i]] # 0
    THEN [hit |-> "cached", dir |-> parents[i], probes |-> probes]
    ELSE LET seen == probes \cup {Probe("database", parents[i])}
         IN  IF HasDbFile(fsys, parents[i])
             THEN [hit |-> "found", dir |-> parents[i], probes |-> seen]
             ELSE WalkDb(parents, i + 1, dbs, fsys, seen)

\* lines 272-302: the walk over chain([db_dir], db_dir.parents)
RECURSIVE WalkConfig(_, _, _, _, _)
WalkConfig(chain, i, cfgs, fsys, probes) ==
    IF i > Len(chain) THEN [hit |-> "none", dir |-> "", probes |-> probes]
    ELSE IF cfgs[chain[i]] # 0
    THEN [hit |-> "cached", dir |-> chain[i], probes |-> probes]
    ELSE LET seen == probes \cup {Probe("config", chain[i])}
         IN  IF HasConfigFile(fsys, chain[i])
             THEN [hit |-> "found", dir |-> chain[i], probes |-> seen]
             ELSE WalkConfig(chain, i + 1, cfgs, fsys, seen)

\* line 301: self._configs[parent] = config
StoreConfig(cfgs, dir, id) == [cfgs EXCEPT ![dir] = id]

\* find_db_for_file with the assignment of line 265 lost: nothing is cached
StoreDbNowhere(dbs, dir, id) == dbs

\* line 265: self._dbs[found] = CompilationDatabase(...)
StoreDb(dbs, dir, id) == [dbs EXCEPT ![dir] = id]

\* _find_config_for_db(db_dir): the config object (0 for None) and the caches
\* after the call
_find_config_for_db(db_dir, cfgs, cfgHeap, fsys, probes) ==
    LET w == WalkConfig(<<db_dir>> \o Parents(db_dir), 1, cfgs, fsys, probes)
    IN  CASE w.hit = "cached" ->
               [ret |-> cfgs[w.dir], cfgs |-> cfgs, cfgHeap |-> cfgHeap,
                probes |-> w.probes]
          [] w.hit = "found" ->
               LET heap == Append(cfgHeap, LoadConfig(ConfigDocs[fsys.cfg.doc]))
               IN  [ret |-> Len(heap), cfgs |-> StoreConfig(cfgs, w.dir, Len(heap)),
                    cfgHeap |-> heap, probes |-> w.probes]
          [] OTHER ->
               [ret |-> 0, cfgs |-> cfgs, cfgHeap |-> cfgHeap, probes |-> w.probes]

ConfigOf(cfgHeap, id) == IF id = 0 THEN None ELSE Some(cfgHeap[id])

\* find_db_for_file(filename): the database object returned (0 for None), the
\* exception that left the call if any, and the caches after the call
find_db_for_file(filename, dbs, cfgs, dbHeap, cfgHeap, fsys) ==
    LET unchanged == [ret |-> 0, exc |-> "", dbs |-> dbs, cfgs |-> cfgs,
                      dbHeap |-> dbHeap, cfgHeap |-> cfgHeap, probes |-> {}]
    IN  IF filename \notin ExistingFiles THEN unchanged
        ELSE LET w == WalkDb(Parents(filename), 1, dbs, fsys, {})
             IN  CASE w.hit = "cached" ->
                        [unchanged EXCEPT !.ret = dbs[w.dir], !.probes = w.probes]
                   [] w.hit = "none" -> [unchanged EXCEPT !.probes = w.probes]
                   [] OTHER ->
                        LET c == _find_config_for_db(w.dir, cfgs, cfgHeap, fsys,
                                                     w.probes)
                            new == NewDatabase(w.dir, c.ret, ConfigOf(c.cfgHeap, c.ret))
                            heap == dbHeap \o new.obj
                        IN  IF new.exc # ""
                            THEN [ret |-> 0, exc |-> new.exc, dbs |-> dbs,
                                  cfgs |-> c.cfgs, dbHeap |-> dbHeap,
                                  cfgHeap |-> c.cfgHeap, probes |-> c.probes]
                            ELSE [ret |-> Len(heap), exc |-> "",
                                  dbs |-> StoreDb(dbs, w.dir, Len(heap)),
                                  cfgs |-> c.cfgs, dbHeap |-> heap,
                                  cfgHeap |-> c.cfgHeap, probes |-> c.probes]

(***************************************************************************)
(* The host entry points.                                                  *)
(***************************************************************************)
NoCall == [language |-> "", filename |-> "", outcome |-> "init",
           flags |-> <<>>, do_cache |-> FALSE, exc |-> "", database |-> 0,
           probes |-> {}]

\* the self a method of database object id sees
Self(dbHeap, cfgHeap, id) ==
    [config |-> ConfigOf(cfgHeap, dbHeap[id].config),
     header_exts |-> dbHeap[id].header_exts,
     source_exts |-> dbHeap[id].source_exts]

\* lines 310-326: what c_settings returns or raises, given what
\* find_db_for_file and get_flags_for_file gave
c_settings(filename, found, got) ==
    LET call == [NoCall EXCEPT !.language = "cfamily", !.filename = filename,
                               !.database = found.ret, !.probes = found.probes]
    IN  IF found.exc # ""
        THEN [call EXCEPT !.outcome = "raise", !.exc = found.exc]
        ELSE IF found.ret = 0
        THEN [call EXCEPT !.outcome = "empty"]
        ELSE IF got.st \notin {"none", "flags"}
        THEN [call EXCEPT !.outcome = "raise", !.exc = got.st]
        ELSE IF got.st = "none" \/ got.flags = <<>>
        THEN [call EXCEPT !.outcome = "empty"]
        ELSE [call EXCEPT !.outcome = "flags", !.flags = got.flags,
                          !.do_cache = TRUE]

InitCache ==
    /\ fs \in [dbAt : DbPlacements, cfg : ConfigPlacements, table : Tables]
    /\ _dbs = EmptyCache
    /\ _configs = EmptyCache
    /\ databases = <<>>
    /\ configs = <<>>
    /\ last = NoCall
    /\ threads = NoThreads
    /\ input = NoInput
    /\ output = NoOutput

\* Settings(language=..., filename=...), one call of the host
Settings(language, filename) ==
    /\ IF language = "cfamily"
       THEN LET found == find_db_for_file(filename, _dbs, _configs, databases,
                                          configs, fs)
            IN  /\ _dbs' = found.dbs
                /\ _configs' = found.cfgs
                /\ databases' = found.dbHeap
                /\ configs' = found.cfgHeap
                /\ \E got \in (IF found.ret = 0 THEN {NoFlags}
                               ELSE get_flags_for_file(
                                        Self(found.dbHeap, found.cfgHeap, found.ret),
                                        fs.table, filename, 1)) :
                       last' = c_settings(filename, found, got)
       ELSE /\ last' = [NoCall EXCEPT !.language = language,
                                      !.filename = filename,
                                      !.outcome = "nothing"]
            /\ UNCHANGED <<_dbs, _configs, databases, configs>>
    /\ UNCHANGED <<fs, input, output, threads>>

Next == \E language \in Languages, filename \in Queries :
            Settings(language, filename)

Spec == InitCache /\ [][Next]_vars

(***************************************************************************)
(* Concurrent requests: find_db_for_file run by several host threads, one  *)
(* step per access to the shared caches.  The code takes no lock.          *)
(***************************************************************************)
ConcurrentFs ==
    [dbAt : {{"/p"}, {"/p", "/p/s"}},
     cfg : {[dir |-> "/", doc |-> 0], [dir |-> "/", doc |-> 1],
            [dir |-> "/p", doc |-> 2]},
     table : {Table(EndToEnd, NoInfo, NoInfo, NoInfo, FlagsB)}]

InitConc ==
    /\ fs \in ConcurrentFs
    /\ _dbs = EmptyCache
    /\ _configs = EmptyCache
    /\ databases = <<>>
    /\ configs = <<>>
    /\ last = NoCall
    /\ threads = NoThreads
    /\ input = NoInput
    /\ output = NoOutput

Finish(th, ret, exc) == [th EXCEPT !.pc = "done", !.ret = ret, !.exc = exc]

\* lines 240-248: the call starts; a path that is no file returns None
Call(t, filename) ==
    /\ threads[t].pc = "idle"
    /\ threads' = [threads EXCEPT ![t] =
          IF filename \notin ExistingFiles
          THEN Finish([Idle EXCEPT !.filename = filename], 0, "")
          ELSE [Idle EXCEPT !.pc = "walk", !.filename = filename,
                            !.parents = Parents(filename), !.i = 1]]
    /\ UNCHANGED <<fs, _dbs, _configs, databases, configs, last, input, output>>

\* lines 250-262: one iteration of the walk over path.parents
WalkStep(t) ==
    LET th == threads[t]
    IN  /\ th.pc = "walk"
        /\ threads' = [threads EXCEPT ![t] =
              IF th.i > Len(th.parents) THEN Finish(th, 0, "")
              ELSE IF _dbs[th.parents[th.i]] # 0
              THEN Finish(th, _dbs[th.parents[th.i]], "")
              ELSE IF HasDbFile(fs, th.parents[th.i])
              THEN [th EXCEPT !.pc = "config", !.found = th.parents[th.i],
                              !.parents = <<th.parents[th.i]>>
                                              \o Parents(th.parents[th.i]),
                              !.i = 1]
              ELSE [th EXCEPT !.i = th.i + 1]]
        /\ UNCHANGED <<fs, _dbs, _configs, databases, configs, last, input, output>>

\* lines 272-280: one iteration of the walk of _find_config_for_db
ConfigStep(t) ==
    LET th == threads[t]
    IN  /\ th.pc = "config"
        /\ threads' = [threads EXCEPT ![t] =
              IF th.i > Len(th.parents)
              THEN [th EXCEPT !.pc = "construct", !.config = 0]
              ELSE IF _configs[th.parents[th.i]] # 0
              THEN [th EXCEPT !.pc = "construct",
                              !.config = _configs[th.parents[th.i]]]
              ELSE IF HasConfigFile(fs, th.parents[th.i])
              THEN [th EXCEPT !.pc = "load"]
              ELSE [th EXCEPT !.i = th.i + 1]]
        /\ UNCHANGED <<fs, _dbs, _configs, databases, configs, last, input, output>>

\* lines 281-302: the configuration file is loaded and cached
LoadStep(t) ==
    LET th == threads[t]
        heap == Append(configs, LoadConfig(ConfigDocs[fs.cfg.doc]))
    IN  /\ th.pc = "load"
        /\ configs' = heap
        /\ _configs' = StoreConfig(_configs, th.parents[th.i], Len(heap))
        /\ threads' = [threads EXCEPT ![t] =
              [th EXCEPT !.pc = "construct", !.config = Len(heap)]]
        /\ UNCHANGED <<fs, _dbs, databases, last, input, output>>

\* line 265, right-hand side: CompilationDatabase(str(found), config)
Construct(t) ==
    LET th == threads[t]
        new == NewDatabase(th.found, th.config, ConfigOf(configs, th.config))
        heap == databases \o new.obj
    IN  /\ th.pc = "construct"
        /\ databases' = heap
        /\ threads' = [threads EXCEPT ![t] =
              IF new.exc # "" THEN Finish(th, 0, new.exc)
              ELSE [th EXCEPT !.pc = "store", !.obj = Len(heap)]]
        /\ UNCHANGED <<fs, _dbs, _configs, configs, last, input, output>>

\* lines 265-267: the object is stored under its directory and returned
Store(t) ==
    LET th == threads[t]
    IN  /\ th.pc = "store"
        /\ _dbs' = StoreDb(_dbs, th.found, th.obj)
        /\ threads' = [threads EXCEPT ![t] = Finish(th, _dbs'[th.found], "")]
        /\ UNCHANGED <<fs, _configs, databases, configs, last, input, output>>

\* the request is over, the thread may serve another
Return(t) ==
    /\ threads[t].pc = "done"
    /\ threads' = [threads EXCEPT ![t] = Idle]
    /\ UNCHANGED <<fs, _dbs, _configs, databases, configs, last, input, output>>

NextConc ==
    \E t \in Threads :
        \/ \E filename \in Queries : Call(t, filename)
        \/ WalkStep(t)
        \/ ConfigStep(t)
        \/ LoadStep(t)
        \/ Construct(t)
        \/ Store(t)
        \/ Return(t)

SpecConc == InitConc /\ [][NextConc]_vars

(***************************************************************************)
(* The pipeline specification: the inputs are drawn in Init, an action     *)
(* applies one function of the pipeline to them.                           *)
(***************************************************************************)
Args == {"-I", "foo", "-Ifoo", "-include", "-iplugindir=foo", "-o", "-DX=1"}

RECURSIVE SeqsUpTo(_, _)
SeqsUpTo(S, n) ==
    IF n = 0 THEN {<<>>}
    ELSE LET shorter == SeqsUpTo(S, n - 1)
         IN  shorter \cup {Append(s, x) : s \in shorter, x \in S}

\* a split and a joined spelling of every path flag
PathFlagForms ==
    {<<F, "foo">> : F \in PATH_FLAGS} \cup {<<F \o "foo">> : F \in PATH_FLAGS}

RawVectors == SeqsUpTo(Args, MaxLen) \cup PathFlagForms

WorkingDirs == {"", "/proj"}

PipelineConfigs == {None} \cup {Some(LoadConfig(ConfigDocs[i])) : i \in 1..4}

InitFlags ==
    /\ input \in [raw : RawVectors, wd : WorkingDirs, config : PipelineConfigs]
    /\ output = NoOutput
    /\ fs = NoFs
    /\ _dbs = EmptyCache
    /\ _configs = EmptyCache
    /\ databases = <<>>
    /\ configs = <<>>
    /\ last = NoCall
    /\ threads = NoThreads

Tokenize ==
    /\ output.op = "none"
    /\ LET parsed == _parse_multi_arg_flags(input.raw)
       IN  output' = [op |-> "tokenize", err |-> parsed.err,
                      toks |-> parsed.toks, flags |-> <<>>]
    /\ UNCHANGED <<input, cacheVars>>

FlattenTokenized ==
    /\ output.op = "none"
    /\ LET parsed == _parse_multi_arg_flags(input.raw)
       IN  output' = [op |-> "flatten", err |-> parsed.err,
                      toks |-> parsed.toks,
                      flags |-> IF parsed.err THEN <<>>
                                ELSE _flatten_flags(parsed.toks)]
    /\ UNCHANGED <<input, cacheVars>>

ResolveSource ==
    /\ output.op = "none"
    /\ input.raw # <<>>
    /\ LET r == SourceFlags(input.config, input.raw, input.wd)
       IN  output' = [op |-> "resolve", err |-> r.st = "MultiFlagError",
                      toks |-> <<>>, flags |-> r.flags]
    /\ UNCHANGED <<input, cacheVars>>

NextFlags == Tokenize \/ FlattenTokenized \/ ResolveSource

SpecFlags == InitFlags /\ [][NextFlags]_vars

(***************************************************************************)
(* Claims about the pipeline.                                              *)
(***************************************************************************)
\* flags.add of the configuration holds the spelling u, as an entry or as a
\* member of a pair
AddHolds(config, u) ==
    /\ config # None
    /\ "flags" \in config[1].keys
    /\ "add" \in config[1].flags.keys
    /\ \E i \in 1..Len(config[1].flags.add) :
          \E k \in 1..Len(config[1].flags.add[i].items) :
              config[1].flags.add[i].items[k] = u

\* the raw vector gives u as the value of a flag that is kept: the argument
\* after a multi-argument flag, or the path of a joined path flag
ValueOfKeptFlag(raw, u) ==
    \/ \E j \in 1..(Len(raw) - 1) :
          raw[j] \in MULTI_ARG_FLAGS \ USELESS_FLAGS /\ raw[j + 1] = u
    \/ \E j \in 1..Len(raw) :
          \E q \in SingleArgFlagSpellings : raw[j] = q \o u

\* C3 as stated: no spelling of USELESS_FLAGS is an element of the final flag
\* list, whatever the raw vector and the configuration.
C3_NoUselessFlagInResult ==
    output.op = "resolve" =>
        \A i \in 1..Len(output.flags) : output.flags[i] \notin USELESS_FLAGS

\* C3 amended: an element of the final list that is a useless spelling never
\* comes from a useless flag of the raw vector: it is the value of a kept flag
\* of the raw vector or was put there by flags.add.
C3_UselessOnlyFromAddOrValue ==
    output.op = "resolve" =>
        \A i \in 1..Len(output.flags) :
            output.flags[i] \in USELESS_FLAGS =>
                \/ AddHolds(input.config, output.flags[i])
                \/ ValueOfKeptFlag(input.raw, output.flags[i])

\* a raw vector with the output-file flag and a configuration was resolved,
\* and the flag and its value are gone from the result
C3_Witness ==
    /\ output.op = "resolve"
    /\ input.raw = <<"-Ifoo", "-o", "foo">>
    /\ input.config # None
    /\ input.wd = "/proj"
    /\ output.flags = <<"-I/proj/foo", "-Wall">>

\* the joined spellings the tokenizer's pattern accepts
JoinedFormValid(F) == F \in SingleArgFlagSpellings

\* C4: for every F of PATH_FLAGS the split form [F, "foo"] and the joined
\* form [F + "foo"] (where valid) both tokenize to the one pair (F, "foo").
C4_SplitAndJoinedAgree ==
    output.op = "tokenize" =>
        \A F \in PATH_FLAGS :
            /\ input.raw = <<F, "foo">> =>
                   ~output.err /\ output.toks = <<Tuple(F, "foo")>>
            /\ (input.raw = <<F \o "foo">> /\ JoinedFormValid(F)) =>
                   ~output.err /\ output.toks = <<Tuple(F, "foo")>>

\* the raw vector holds no flag of SQUASH_FLAGS, alone or joined to its path
NoSquashFlag(raw) ==
    \A i \in 1..Len(raw) : \A q \in SQUASH_FLAGS : ~StartsWith(raw[i], q)

\* C5: flattening undoes tokenizing on every vector that tokenizes and holds
\* no squash flag.
C5_FlattenLeftInverse ==
    (output.op = "flatten" /\ ~output.err /\ NoSquashFlag(input.raw)) =>
        output.flags = input.raw

(***************************************************************************)
(* Claims about the caches and the entry point.                            *)
(***************************************************************************)
Min(S) == CHOOSE x \in S : \A y \in S : x <= y

\* the database root of a file: its nearest ancestor holding a database
\* file, "" when there is none
RootOf(filename) ==
    LET ps == Parents(filename)
        at == {i \in 1..Len(ps) : HasDbFile(fs, ps[i])}
    IN  IF at = {} THEN "" ELSE ps[Min(at)]

\* a configuration file lies in dir or in an ancestor of it
ConfigAbove(dir) ==
    \E d \in {dir} \cup SeqToSet(Parents(dir)) : HasConfigFile(fs, d)

\* the last call was c_settings for an existing file
Resolved == last.language = "cfamily" /\ last.filename \in ExistingFiles

LastInfo == GetCompilationInfoForFile(fs.table, last.filename)

\* C1: none of the failure kinds reaches the host: a call that ends without
\* flags ends with the empty result that is not marked cacheable, and the
\* tokenizer's MultiFlagError never leaves c_settings.
C1_FailuresNeverPropagate ==
    /\ last.outcome = "raise" => last.exc \notin {"NoFlagsFound", "MultiFlagError"}
    /\ last.outcome = "empty" => last.flags = <<>> /\ ~last.do_cache

\* C2: a file of the index whose database root has no configuration file in
\* it or above it resolves, cacheable, to tokenize, drop useless, absolutize,
\* flatten of its raw flags, from a database object with no configuration.
C2_NoConfigResolves ==
    LET raw == LastInfo.flags
        parsed == _parse_multi_arg_flags(raw)
        skipped == _skip_useless_args(parsed.toks)
        expected == _flatten_flags(
                        IF LastInfo.wd = "" THEN skipped
                        ELSE _make_relative_paths_in_flags_absolute(
                                 skipped, LastInfo.wd))
    IN  ( /\ Resolved
          /\ RootOf(last.filename) # ""
          /\ ~ConfigAbove(RootOf(last.filename))
          /\ SplitExt(last.filename)[2] \notin HEADER_EXTS
          /\ raw # <<>> /\ ~parsed.err /\ expected # <<>> )
        => /\ last.outcome = "flags"
           /\ last.do_cache
           /\ last.flags = expected
           /\ last.database # 0
           /\ databases[last.database].config = 0

\* an earlier call returned a database, and this step is a call for another
\* existing file under the same database root
LaterCallSameRoot ==
    /\ last.language = "cfamily" /\ last.database # 0
    /\ last'.language = "cfamily" /\ last'.filename \in ExistingFiles
    /\ last'.filename # last.filename
    /\ RootOf(last'.filename) = RootOf(last.filename)

SameObjects ==
    /\ last'.database = last.database
    /\ databases' = databases
    /\ configs' = configs
    /\ databases'[last'.database].config = databases[last.database].config

\* the directories strictly between a file and its database root
BelowRoot(filename) ==
    LET ps == Parents(filename)
    IN  {ps[i] : i \in {j \in 1..Len(ps) : \A k \in 1..j : ~HasDbFile(fs, ps[k])}}

\* C6 as stated: the later call returns the same index and configuration
\* objects and probes no ancestor directory at all.
C6_LaterCallWalksNothing ==
    [][LaterCallSameRoot => (SameObjects /\ last'.probes = {})]_vars

\* C6 amended: the later call returns the same index and configuration
\* objects, constructs nothing, and probes for a database file only in the
\* directories strictly between the file and the root; it probes for no
\* configuration file.  A database returned is the cache entry of the file's
\* root, and a cache entry is never replaced.
C6_LaterCallSameObjects ==
    [][ /\ LaterCallSameRoot =>
              /\ SameObjects
              /\ last'.probes \subseteq
                     {Probe("database", d) : d \in BelowRoot(last'.filename)}
        /\ (last'.language = "cfamily" /\ last'.database # 0) =>
              _dbs'[RootOf(last'.filename)] = last'.database
        /\ \A d \in Dirs : _dbs[d] # 0 => _dbs'[d] = _dbs[d]
        /\ \A d \in Dirs : _configs[d] # 0 => _configs'[d] = _configs[d] ]_vars

\* the call for /p/s/b.c hit the cache entry of /p after probing /p/s only:
\* the entry was made by an earlier call
C6_Witness ==
    /\ Resolved /\ last.filename = "/p/s/b.c"
    /\ last.database # 0
    /\ _dbs["/p"] = last.database
    /\ last.probes = {Probe("database", "/p/s")}

\* the last call resolved a header through a database object
HeaderCall ==
    /\ Resolved /\ last.database # 0
    /\ SplitExt(last.filename)[2] \in databases[last.database].header_exts

LastSelf == Self(databases, configs, last.database)

CandidateInfo(e) ==
    GetCompilationInfoForFile(fs.table, SplitExt(last.filename)[1] \o e)

\* the configured order of the source extensions of the last call's database
SourceOrder ==
    LET c == LastSelf.config
    IN  IF c # None /\ "extensions" \in c[1].keys
             /\ "source" \in c[1].extensions.keys
        THEN c[1].extensions.source ELSE <<>>

\* C7: a header without an entry of its own gets the flags of the first
\* candidate, in the configured order of the source extensions, that has a
\* non-empty entry.
C7_FirstCandidateInOrder ==
    LET hits == {i \in 1..Len(SourceOrder) : CandidateInfo(SourceOrder[i]).flags # <<>>}
        first == CandidateInfo(SourceOrder[Min(hits)])
    IN  ( /\ HeaderCall
          /\ LastInfo.flags = <<>>
          /\ SeqToSet(SourceOrder) \cap LastSelf.header_exts = {}
          /\ hits # {} )
        => /\ last.outcome = "flags"
           /\ last.flags = SourceFlags(LastSelf.config, first.flags, first.wd).flags

\* no candidate of the header of the last call has a non-empty raw vector
NoCandidateEntry ==
    \A e \in LastSelf.source_exts : CandidateInfo(e).flags = <<>>

C10_HeaderFallbackTerminates == last.exc # "RecursionError"

(***************************************************************************)
(* Claim about concurrent requests.                                        *)
(***************************************************************************)
ObjectsFor(dir) == {k \in 1..Len(databases) : databases[k].directory = dir}

\* C8: however concurrent requests interleave, one CompilationDatabase
\* object at most is constructed for a directory, and the requests that
\* return an index for the same directory return the same object.
C8_OneIndexPerDirectory ==
    /\ \A d \in Dirs : Cardinality(ObjectsFor(d)) <= 1
    /\ \A t, u \in Threads :
          ( /\ threads[t].pc = "done" /\ threads[u].pc = "done"
            /\ threads[t].ret # 0 /\ threads[u].ret # 0
            /\ databases[threads[t].ret].directory
                   = databases[threads[u].ret].directory )
          => threads[t].ret = threads[u].ret

====
